---------------------------- MODULE Spec2Model ----------------------------
(***************************************************************************)
(* A model of ai-file-intel: the path-locality grouping of audit rows      *)
(* (CSVHandler.read_file_summaries), the bounded-concurrency dispatcher    *)
(* (FileIntelAnalyzer.process_file_summary_lists) and the parser of the    *)
(* backend's reply (GeminiClient._parse_analysis).                         *)
(*                                                                         *)
(* A Python string is a sequence of one-character strings, so that strip,  *)
(* split and the substring test `in` are computed as the code computes     *)
(* them.                                                                   *)
(***************************************************************************)
EXTENDS Integers, Sequences, FiniteSets, TLC

(***************************************************************************)
(* Bounds of the model.                                                    *)
(***************************************************************************)
MaxRows == 3
MaxTextLen == 4
MaxBatches == 3
MaxPool == 2
MaxIndexDepth == 12
MaxResults == 3

(***************************************************************************)
(* Strings.                                                                *)
(***************************************************************************)
Sep == "\\"
Space == " "

RECURSIVE LStrip(_)
LStrip(s) == IF s # <<>> /\ Head(s) = Space THEN LStrip(Tail(s)) ELSE s

RECURSIVE RStrip(_)
RStrip(s) ==
    IF s # <<>> /\ s[Len(s)] = Space THEN RStrip(SubSeq(s, 1, Len(s) - 1)) ELSE s

\* str.strip()
Strip(s) == RStrip(LStrip(s))

\* ch in s, for a one-character ch
HasChar(s, ch) == \E i \in 1..Len(s) : s[i] = ch

\* a in b, the substring test of Python
IsSubstring(a, b) ==
    \E i \in 0..(Len(b) - Len(a)) : SubSeq(b, i + 1, i + Len(a)) = a

\* s.split(ch): the components between the occurrences of ch
RECURSIVE SplitFrom(_, _, _)
SplitFrom(s, ch, cur) ==
    IF s = <<>> THEN <<cur>>
    ELSE IF Head(s) = ch THEN <<cur>> \o SplitFrom(Tail(s), ch, <<>>)
    ELSE SplitFrom(Tail(s), ch, Append(cur, Head(s)))

Split(s, ch) == SplitFrom(s, ch, <<>>)

\* ch.join(parts)
RECURSIVE Join(_, _)
Join(parts, ch) ==
    IF parts = <<>> THEN <<>>
    ELSE IF Len(parts) = 1 THEN parts[1]
    ELSE parts[1] \o <<ch>> \o Join(Tail(parts), ch)

\* the concatenation of a sequence of sequences
RECURSIVE Flatten(_)
Flatten(ss) == IF ss = <<>> THEN <<>> ELSE Head(ss) \o Flatten(Tail(ss))

(***************************************************************************)
(* read_file_summaries: the rows of the input table.                       *)
(***************************************************************************)
\* a row qualifies when its stripped Path is non-empty and holds a separator
Qualifies(row) ==
    LET file_path == Strip(row.Path)
    IN  file_path # <<>> /\ HasChar(file_path, Sep)

\* file_record: the twelve formatted columns; the eleven columns other than
\* Path are copied uninterpreted
FileRecord(row) == [Path |-> Strip(row.Path), Columns |-> row.Columns]

\* the records of the qualifying rows, in input order
RECURSIVE SelectQualifying(_)
SelectQualifying(rs) ==
    IF rs = <<>> THEN <<>>
    ELSE IF Qualifies(Head(rs)) THEN <<FileRecord(Head(rs))>> \o SelectQualifying(Tail(rs))
    ELSE SelectQualifying(Tail(rs))

RoundHalfUp(n) == (n + 1) \div 2

\* int(round(file_tree_level / 2, 0)): Python rounds a half to the even integer
RoundHalf(n) ==
    IF n % 2 = 0 THEN n \div 2
    ELSE IF ((n - 1) \div 2) % 2 = 0 THEN (n - 1) \div 2 ELSE ((n - 1) \div 2) + 1

DirLevelGroupingFixed(depth) == 1

DirLevelGroupingWhole(depth) == IF depth > 2 THEN depth ELSE 1

\* lines 90-91, 102: the index into file_tree of the component that decides
\* the batch boundary; file_tree_level / 2 > 1 is depth > 2
DirLevelGrouping(depth) == IF depth > 2 THEN RoundHalf(depth) ELSE 1

IsFirstRecordNever(prev) == FALSE

\* `if not previous_path`: no qualifying record has been read yet
IsFirstRecord(prev) == prev = <<>>

\* file_tree[i], Python's zero-based index
Component(file_tree, i) == file_tree[i + 1]

AppendRecordFront(batch, file_record) == <<file_record>> \o batch

\* file_batch_content.append(file_record)
AppendRecord(batch, file_record) == Append(batch, file_record)

(***************************************************************************)
(* The inputs of the grouping.                                             *)
(***************************************************************************)
Components == {<<"A">>, <<"B">>}

PathsOfDepth(d) == {Join(t, Sep) : t \in [1..d -> Components]}

Str_A_B_x == <<"A", Sep, "B", Sep, "x", ".", "t", "x", "t">>
Str_A_B_y == <<"A", Sep, "B", Sep, "y", ".", "t", "x", "t">>
Str_A_C_z == <<"A", Sep, "C", Sep, "z", ".", "t", "x", "t">>

SpecialPaths ==
    { <<>>,                                   \* an empty Path
      <<Space>>,                              \* blank: empty once stripped
      <<Space, "A", Sep, "B", Space>>,        \* padded: stripped to A\B
      <<"A", Sep>>,                           \* depth 2, the key is empty
      <<"A", "B", Sep, "A", Sep, "B">>,       \* depth 3, index 2
      <<"B", Sep, "A", Sep, "A", Sep, "B">>,  \* depth 4, index 2
      <<"A", Sep, "A", Sep, "B", Sep, "A", Sep, "B">> }  \* depth 5, index 2

\* every path of one or two components, and the chosen longer ones
PathInputs == PathsOfDepth(1) \cup PathsOfDepth(2) \cup SpecialPaths

RowInputs == [Path : PathInputs, Columns : {"c"}]

ScenarioRows ==
    << [Path |-> Str_A_B_x, Columns |-> "c"],
       [Path |-> Str_A_B_y, Columns |-> "c"],
       [Path |-> Str_A_C_z, Columns |-> "c"] >>

RowSeqInputs == (UNION {[1..n -> RowInputs] : n \in 0..MaxRows}) \cup {ScenarioRows}

(***************************************************************************)
(* _parse_analysis: the reply of the backend.                              *)
(*                                                                         *)
(* The raw text is a sequence of words; "\n" ends a line, ":" is the colon *)
(* and " " is white space.  lower() and the test `label in lower_line` are *)
(* computed word by word.                                                  *)
(***************************************************************************)
Newline == "\n"
Colon == ":"

\* str.lower() of a word
Lower(w) ==
    CASE w = "Path" -> "path"
      [] w = "Trustworthiness" -> "trustworthiness"
      [] w = "Primary Purpose" -> "primary purpose"
      [] w = "Security Concerns" -> "security concerns"
      [] w = "Risk Score" -> "risk score"
      [] w = "Recommendation" -> "recommendation"
      [] w = "RECOMMENDATION" -> "recommendation"
      [] w = "FilePath" -> "filepath"
      [] OTHER -> w

\* label in w, for a lower-case word w
WordHas(w, label) == w = label \/ (w = "filepath" /\ label = "path")

\* label in lower_line
LabelIn(label, line) == \E i \in 1..Len(line) : WordHas(Lower(line[i]), label)

\* the keys of the dictionary `parsed`
Fields == {"path", "trustworthiness", "primary_purpose", "security_concerns",
           "risk score", "recommendation"}

\* lines 118-125 and 154-161: the working dictionary with its default values
BlankParsed == [f \in Fields |-> <<>>]

\* line.split(':', 1)[1].strip(): the words after the first colon, stripped
AfterFirstColon(line) ==
    LET first == CHOOSE i \in 1..Len(line) :
                     line[i] = Colon /\ \A j \in 1..(i - 1) : line[j] # Colon
    IN  Strip(SubSeq(line, first + 1, Len(line)))

\* lines 135-152: the key the if/elif chain assigns for a stripped line; the
\* first test that succeeds wins
MatchedField(line) ==
    IF LabelIn("path", line) /\ HasChar(line, Colon) THEN "path"
    ELSE IF LabelIn("trustworthiness", line) /\ HasChar(line, Colon) THEN "trustworthiness"
    ELSE IF LabelIn("primary purpose", line) /\ HasChar(line, Colon) THEN "primary_purpose"
    ELSE IF LabelIn("security concerns", line) /\ HasChar(line, Colon) THEN "security_concerns"
    ELSE IF LabelIn("risk score", line) /\ HasChar(line, Colon) THEN "risk score"
    ELSE IF LabelIn("recommendation", line) /\ HasChar(line, Colon) THEN "recommendation"
    ELSE "none"

\* lines 131-161: one iteration of the loop over the lines
ParseLine(st, rawline) ==
    LET line == Strip(rawline)
        key == MatchedField(line)
    IN  IF key = "none" THEN st
        ELSE LET assigned == [st.parsed EXCEPT ![key] = AfterFirstColon(line)]
             IN  IF key = "recommendation"
                 THEN [parsed |-> BlankParsed,
                       parsed_dictionaries |-> Append(st.parsed_dictionaries, assigned)]
                 ELSE [parsed |-> assigned,
                       parsed_dictionaries |-> st.parsed_dictionaries]

RECURSIVE ParseLines(_, _)
ParseLines(st, ls) ==
    IF ls = <<>> THEN st ELSE ParseLines(ParseLine(st, Head(ls)), Tail(ls))

\* lines 107-164: _parse_analysis(analysis)
ParseAnalysis(text) ==
    ParseLines([parsed |-> BlankParsed, parsed_dictionaries |-> <<>>],
               Split(text, Newline)).parsed_dictionaries

(***************************************************************************)
(* The inputs of the parser.                                               *)
(***************************************************************************)
Words == {"Path", "Risk Score", "Recommendation", "RECOMMENDATION", Colon, "ok",
          Space, Newline}

\* the reply the prompt asks for, for one file
WellFormedReply ==
    << "Path", Colon, Space, "ok", Newline,
       "Trustworthiness", Colon, Space, "ok", Newline,
       "Primary Purpose", Colon, Space, "ok", Newline,
       "Security Concerns", Colon, Space, "ok", Newline,
       "Risk Score", Colon, Space, "ok", Newline,
       "Recommendation", Colon, Space, "ok", Newline >>

SpecialTexts ==
    { WellFormedReply,
      WellFormedReply \o WellFormedReply,
      <<"FilePath", Colon, "ok", Newline, "Recommendation", Colon, "ok">>,
      <<"Recommendation", Colon, Space, "ok", Space, "Path">>,
      \* a field set twice, then two records of which the second has no Path
      <<"Path", Colon, "ok", Newline, "Path", Colon, Space, "ok", Space, "ok", Newline,
        "Recommendation", Colon, "ok", Newline, "RECOMMENDATION", Colon, Colon>>,
      \* a line that holds two labels
      <<"Risk Score", Colon, Space, "ok", Space, "Path", Newline,
        "Recommendation", Colon, Space, "ok">>,
      \* a record that is never terminated
      <<"Path", Colon, "ok", Newline, "Risk Score", Colon, "ok", Newline, "Recommendation">> }

TextInputs == (UNION {[1..n -> Words] : n \in 0..MaxTextLen}) \cup SpecialTexts

(***************************************************************************)
(* process_file_summary_lists: values.                                     *)
(***************************************************************************)
\* an element of `results` is a dictionary (an assessment) or a list (a batch)
DictEntry(d) == [type |-> "dict", fields |-> d, records |-> <<>>]
ListEntry(b) == [type |-> "list", fields |-> BlankParsed, records |-> b]

\* what analyze_files_data returns: None, or the list of parsed dictionaries
None == [none |-> TRUE, value |-> <<>>]
ListValue(ds) == [none |-> FALSE, value |-> ds]

RECURSIVE DictEntries(_)
DictEntries(ds) ==
    IF ds = <<>> THEN <<>> ELSE <<DictEntry(Head(ds))>> \o DictEntries(Tail(ds))

AnalyzeFailureValueEmptyList == ListValue(<<>>)

\* gemini_client.py lines 103-105: the error is caught and None is returned
AnalyzeFailureValue == None

PhaseAfterCallRaise(failed) == IF failed THEN "finished" ELSE "sleeping"

\* main.py lines 54-56: analyze_files_data returns in both cases (it catches
\* the error itself), so time.sleep(20) follows the call whatever its outcome
PhaseAfterCall(failed) == "sleeping"

OutcomeEntriesDropFailure(final_data, file_summary) ==
    IF final_data.none THEN <<>> ELSE DictEntries(final_data.value)

\* main.py lines 75-83: what one iteration of the as_completed loop appends to
\* results; iterating None raises TypeError before anything is appended, and
\* the handler appends the batch itself
OutcomeEntries(final_data, file_summary) ==
    IF final_data.none THEN <<ListEntry(file_summary)>>
    ELSE DictEntries(final_data.value)

\* main.py line 80: `except Exception` catches whatever the try body raises
HandlerCatches(exc) == TRUE

ExtendResultsOverwrite(results_, entries) == entries

\* main.py lines 77-78, 82: results.append, once per entry, in the main thread
ExtendResults(results_, entries) == results_ \o entries

NextDoneSame(done) == done

\* main.py line 84
NextDone(done) == done + 1

AdjustThreadCountAlways(workers, max_workers) == Append(workers, 0)

\* ThreadPoolExecutor.submit: a worker thread is started while fewer than
\* max_workers exist (0 marks a worker that runs no unit)
AdjustThreadCount(workers, max_workers) ==
    IF Len(workers) < max_workers THEN Append(workers, 0) ELSE workers

CanReturnEarly(yield_order, n) == n = 0 \/ Len(yield_order) >= 1

\* main.py lines 73-87: the as_completed loop ends when every future has been
\* yielded
CanReturn(yield_order, n) == Len(yield_order) = n

(***************************************************************************)
(* The inputs of the dispatcher.                                           *)
(***************************************************************************)
BatchXY == <<FileRecord(ScenarioRows[1]), FileRecord(ScenarioRows[2])>>
BatchZ == <<FileRecord(ScenarioRows[3])>>

BatchInputs == {BatchXY, BatchZ}

\* the batch lists: [x.txt, y.txt], [z.txt], [x.txt, y.txt], ... up to MaxBatches
\* batches, so that a list holds different batches and, from three on, equal ones
BatchSeqInputs ==
    {[i \in 1..n |-> IF i % 2 = 1 THEN BatchXY ELSE BatchZ] : n \in 0..MaxBatches}

\* replies of the backend: a text without any label, and two records
ReplyInputs == {<<"ok">>, WellFormedReply \o WellFormedReply}

VARIABLES
    \* read_file_summaries
    hasPathColumn,       \* 'Path' in reader.fieldnames
    rows,                \* the rows the reader yields
    rowIdx,              \* the number of rows read so far
    file_batch_content,  \* the batch being accumulated
    previous_path,       \* the Path of the preceding qualifying record
    summary_list,        \* the batches closed so far
    gpc,                 \* "idle", "open", "loop", "returned", "raised"
    returned,            \* the value read_file_summaries returns
    \* _parse_analysis
    analysis,            \* the raw text
    lineIdx,             \* the number of lines scanned so far
    parsed,              \* the working dictionary
    parsed_dictionaries, \* the dictionaries emitted so far
    ppc,                 \* "idle", "scan", "returned"
    \* process_file_summary_lists
    file_summaries_list, \* the batches to process
    max_workers,         \* the size of the pool
    dpc,                 \* "idle", "start", "submit", "collect", "returned",
                         \* "raised"
    submitted,           \* the number of batches submitted so far
    work_queue,          \* the executor's queue of units not yet started
    workers,             \* the worker threads: the unit each runs, or 0
    ustate,              \* per unit: "new", "queued", "calling", "sleeping",
                         \* "finished" (future done), "yielded" (by as_completed)
    reply,               \* per unit: how its backend call resolved
    final_data,          \* per unit: what process_file_batch returns
    yield_order,         \* the units in the order as_completed yielded them
    results,             \* the result collection
    done,                \* the completion counter
    progress,            \* the calls progress_tracker(total, done) made so far
    \* write_analysis_results
    write_results,       \* its parameter `results`
    wIdx,                \* the number of entries the running loop has visited
    wpc,                 \* "idle", "fieldnames", "rows", "returned", "raised"
    fieldnames,          \* the set of keys seen
    processed_results,   \* the rows to write
    errors,              \* what this call has written to the file "errors"
    csvfile,             \* the output table
    \* run_analysis
    rpc                  \* "idle", "read", "process", "write", "returned", "raised"

gvars == <<hasPathColumn, rows, rowIdx, file_batch_content, previous_path,
           summary_list, gpc, returned>>
pvars == <<analysis, lineIdx, parsed, parsed_dictionaries, ppc>>
dvars == <<file_summaries_list, max_workers, dpc, submitted, work_queue, workers,
           ustate, reply, final_data, yield_order, results, done, progress>>
wvars == <<write_results, wIdx, wpc, fieldnames, processed_results, errors, csvfile>>
rvars == <<rpc>>
vars == <<gvars, pvars, dvars, wvars, rvars>>

(***************************************************************************)
(* read_file_summaries.                                                    *)
(***************************************************************************)
GroupIdle ==
    /\ hasPathColumn = TRUE
    /\ rows = <<>>
    /\ rowIdx = 0
    /\ file_batch_content = <<>>
    /\ previous_path = <<>>
    /\ summary_list = <<>>
    /\ gpc = "idle"
    /\ returned = <<>>

GroupInit ==
    /\ hasPathColumn \in BOOLEAN
    /\ rows \in RowSeqInputs
    /\ rowIdx = 0
    /\ file_batch_content = <<>>
    /\ previous_path = <<>>
    /\ summary_list = <<>>
    /\ gpc = "open"
    /\ returned = <<>>

\* lines 53-57: open the file and check the header
OpenReader ==
    /\ gpc = "open"
    /\ gpc' = IF hasPathColumn THEN "loop" ELSE "raised"
    /\ UNCHANGED <<hasPathColumn, rows, rowIdx, file_batch_content, previous_path,
                   summary_list, returned>>
    /\ UNCHANGED <<pvars, dvars, wvars, rvars>>

\* lines 60-65: a row whose Path is empty or has no separator is skipped
SkipRow ==
    /\ gpc = "loop"
    /\ rowIdx < Len(rows)
    /\ ~Qualifies(rows[rowIdx + 1])
    /\ rowIdx' = rowIdx + 1
    /\ UNCHANGED <<hasPathColumn, rows, file_batch_content, previous_path,
                   summary_list, gpc, returned>>
    /\ UNCHANGED <<pvars, dvars, wvars, rvars>>

\* lines 83-86: the first qualifying record
FirstRecord ==
    /\ gpc = "loop"
    /\ rowIdx < Len(rows)
    /\ Qualifies(rows[rowIdx + 1])
    /\ IsFirstRecord(previous_path)
    /\ file_batch_content' = AppendRecord(file_batch_content, FileRecord(rows[rowIdx + 1]))
    /\ previous_path' = Strip(rows[rowIdx + 1].Path)
    /\ rowIdx' = rowIdx + 1
    /\ UNCHANGED <<hasPathColumn, rows, summary_list, gpc, returned>>
    /\ UNCHANGED <<pvars, dvars, wvars, rvars>>

\* lines 87-110: a later qualifying record closes the batch or joins it
GroupRecord ==
    /\ gpc = "loop"
    /\ rowIdx < Len(rows)
    /\ Qualifies(rows[rowIdx + 1])
    /\ ~IsFirstRecord(previous_path)
    /\ LET file_path == Strip(rows[rowIdx + 1].Path)
           file_record == FileRecord(rows[rowIdx + 1])
           file_tree == Split(file_path, Sep)
           dir_level_grouping == DirLevelGrouping(Len(file_tree))
       IN  IF dir_level_grouping >= Len(file_tree)
           THEN \* file_tree[dir_level_grouping] raises IndexError
                /\ gpc' = "raised"
                /\ UNCHANGED <<file_batch_content, previous_path, summary_list, rowIdx>>
           ELSE LET folder == Component(file_tree, dir_level_grouping)
                IN  /\ IF ~IsSubstring(folder, previous_path)
                       THEN /\ summary_list' = Append(summary_list, file_batch_content)
                            /\ file_batch_content' = AppendRecord(<<>>, file_record)
                       ELSE /\ file_batch_content' = AppendRecord(file_batch_content, file_record)
                            /\ UNCHANGED summary_list
                    /\ previous_path' = file_path
                    /\ rowIdx' = rowIdx + 1
                    /\ UNCHANGED gpc
    /\ UNCHANGED <<hasPathColumn, rows, returned>>
    /\ UNCHANGED <<pvars, dvars, wvars, rvars>>

\* lines 112-113: the reader is exhausted; summary_list is returned as it is
ReturnSummaries ==
    /\ gpc = "loop"
    /\ rowIdx = Len(rows)
    /\ returned' = summary_list
    /\ gpc' = "returned"
    /\ UNCHANGED <<hasPathColumn, rows, rowIdx, file_batch_content, previous_path,
                   summary_list>>
    /\ UNCHANGED <<pvars, dvars, wvars, rvars>>

(***************************************************************************)
(* _parse_analysis.                                                        *)
(***************************************************************************)
ParseIdle ==
    /\ analysis = <<>>
    /\ lineIdx = 0
    /\ parsed = BlankParsed
    /\ parsed_dictionaries = <<>>
    /\ ppc = "idle"

ParseInit ==
    /\ analysis \in TextInputs
    /\ lineIdx = 0
    /\ parsed = BlankParsed
    /\ parsed_dictionaries = <<>>
    /\ ppc = "scan"

Lines == Split(analysis, Newline)

\* lines 131-152: a line that matches no label and changes nothing
SkipLine ==
    /\ ppc = "scan"
    /\ lineIdx < Len(Lines)
    /\ MatchedField(Strip(Lines[lineIdx + 1])) = "none"
    /\ lineIdx' = lineIdx + 1
    /\ UNCHANGED <<analysis, parsed, parsed_dictionaries, ppc>>
    /\ UNCHANGED <<gvars, dvars, wvars, rvars>>

\* lines 135-149: a line that sets one of the five fields before the last
FieldLine ==
    /\ ppc = "scan"
    /\ lineIdx < Len(Lines)
    /\ MatchedField(Strip(Lines[lineIdx + 1])) \notin {"none", "recommendation"}
    /\ LET st == ParseLine([parsed |-> parsed,
                            parsed_dictionaries |-> parsed_dictionaries],
                           Lines[lineIdx + 1])
       IN  /\ parsed' = st.parsed
           /\ parsed_dictionaries' = st.parsed_dictionaries
    /\ lineIdx' = lineIdx + 1
    /\ UNCHANGED <<analysis, ppc>>
    /\ UNCHANGED <<gvars, dvars, wvars, rvars>>

\* lines 150-161: the recommendation line emits the dictionary and resets it
RecommendationLine ==
    /\ ppc = "scan"
    /\ lineIdx < Len(Lines)
    /\ MatchedField(Strip(Lines[lineIdx + 1])) = "recommendation"
    /\ LET st == ParseLine([parsed |-> parsed,
                            parsed_dictionaries |-> parsed_dictionaries],
                           Lines[lineIdx + 1])
       IN  /\ parsed' = st.parsed
           /\ parsed_dictionaries' = st.parsed_dictionaries
    /\ lineIdx' = lineIdx + 1
    /\ UNCHANGED <<analysis, ppc>>
    /\ UNCHANGED <<gvars, dvars, wvars, rvars>>

ReturnParsedFlush ==
    /\ ppc = "scan"
    /\ lineIdx = Len(Lines)
    /\ ppc' = "returned"
    /\ parsed_dictionaries' =
           IF parsed # BlankParsed THEN Append(parsed_dictionaries, parsed)
           ELSE parsed_dictionaries
    /\ UNCHANGED <<analysis, lineIdx, parsed>>
    /\ UNCHANGED <<gvars, dvars, wvars, rvars>>

\* line 164
ReturnParsed ==
    /\ ppc = "scan"
    /\ lineIdx = Len(Lines)
    /\ ppc' = "returned"
    /\ UNCHANGED <<analysis, lineIdx, parsed, parsed_dictionaries>>
    /\ UNCHANGED <<gvars, dvars, wvars, rvars>>

(***************************************************************************)
(* process_file_summary_lists with its worker pool.                        *)
(***************************************************************************)
NumBatches == Len(file_summaries_list)
Units == 1..NumBatches

DispatchIdle ==
    /\ file_summaries_list = <<>>
    /\ max_workers = 1
    /\ dpc = "idle"
    /\ submitted = 0
    /\ work_queue = <<>>
    /\ workers = <<>>
    /\ ustate = <<>>
    /\ reply = <<>>
    /\ final_data = <<>>
    /\ yield_order = <<>>
    /\ results = <<>>
    /\ done = 0
    /\ progress = <<>>

NoReply == [resolved |-> FALSE, failed |-> FALSE, text |-> <<>>]

DispatchInit ==
    /\ file_summaries_list \in BatchSeqInputs
    /\ max_workers \in 1..MaxPool
    /\ dpc = "start"
    /\ submitted = 0
    /\ work_queue = <<>>
    /\ workers = <<>>
    /\ ustate = [i \in 1..Len(file_summaries_list) |-> "new"]
    /\ reply = [i \in 1..Len(file_summaries_list) |-> NoReply]
    /\ final_data = [i \in 1..Len(file_summaries_list) |-> None]
    /\ yield_order = <<>>
    /\ results = <<>>
    /\ done = 0
    /\ progress = <<>>

\* main.py lines 64-68: done = 0, the first progress report, results = []
ReportStart ==
    /\ dpc = "start"
    /\ progress' = Append(progress, <<NumBatches, done>>)
    /\ dpc' = IF NumBatches = 0 THEN "collect" ELSE "submit"
    /\ UNCHANGED <<file_summaries_list, max_workers, submitted, work_queue, workers,
                   ustate, reply, final_data, yield_order, results, done>>
    /\ UNCHANGED <<gvars, pvars, wvars, rvars>>

\* main.py lines 70-71: executor.submit for the next batch, in list order
Submit ==
    /\ dpc = "submit"
    /\ submitted < NumBatches
    /\ submitted' = submitted + 1
    /\ ustate' = [ustate EXCEPT ![submitted + 1] = "queued"]
    /\ work_queue' = Append(work_queue, submitted + 1)
    /\ workers' = AdjustThreadCount(workers, max_workers)
    /\ dpc' = IF submitted + 1 = NumBatches THEN "collect" ELSE "submit"
    /\ UNCHANGED <<file_summaries_list, max_workers, reply, final_data, yield_order,
                   results, done, progress>>
    /\ UNCHANGED <<gvars, pvars, wvars, rvars>>

\* a worker thread without a unit takes the oldest queued unit and enters
\* process_file_batch, main.py line 54
TakeWork(w) ==
    /\ workers[w] = 0
    /\ work_queue # <<>>
    /\ workers' = [workers EXCEPT ![w] = Head(work_queue)]
    /\ work_queue' = Tail(work_queue)
    /\ ustate' = [ustate EXCEPT ![Head(work_queue)] = "calling"]
    /\ UNCHANGED <<file_summaries_list, max_workers, dpc, submitted, reply, final_data,
                   yield_order, results, done, progress>>
    /\ UNCHANGED <<gvars, pvars, wvars, rvars>>

\* the worker is released and the unit's future is done
Release(w) == [workers EXCEPT ![w] = 0]

\* gemini_client.py lines 94-101: the backend replies and the reply is parsed
BackendReply(w, text) ==
    /\ workers[w] # 0
    /\ ustate[workers[w]] = "calling"
    /\ reply' = [reply EXCEPT ![workers[w]] =
                     [resolved |-> TRUE, failed |-> FALSE, text |-> text]]
    /\ final_data' = [final_data EXCEPT ![workers[w]] = ListValue(ParseAnalysis(text))]
    /\ ustate' = [ustate EXCEPT ![workers[w]] = PhaseAfterCall(FALSE)]
    /\ workers' = IF PhaseAfterCall(FALSE) = "finished" THEN Release(w) ELSE workers
    /\ UNCHANGED <<file_summaries_list, max_workers, dpc, submitted, work_queue,
                   yield_order, results, done, progress>>
    /\ UNCHANGED <<gvars, pvars, wvars, rvars>>

\* gemini_client.py lines 94, 103-105: the backend call fails
BackendFail(w) ==
    /\ workers[w] # 0
    /\ ustate[workers[w]] = "calling"
    /\ reply' = [reply EXCEPT ![workers[w]] =
                     [resolved |-> TRUE, failed |-> TRUE, text |-> <<>>]]
    /\ final_data' = [final_data EXCEPT ![workers[w]] = AnalyzeFailureValue]
    /\ ustate' = [ustate EXCEPT ![workers[w]] = PhaseAfterCall(TRUE)]
    /\ workers' = IF PhaseAfterCall(TRUE) = "finished" THEN Release(w) ELSE workers
    /\ UNCHANGED <<file_summaries_list, max_workers, dpc, submitted, work_queue,
                   yield_order, results, done, progress>>
    /\ UNCHANGED <<gvars, pvars, wvars, rvars>>

\* main.py lines 56-57: time.sleep(20) has elapsed, process_file_batch returns,
\* the future is done and the worker thread is free again
WakeUp(w) ==
    /\ workers[w] # 0
    /\ ustate[workers[w]] = "sleeping"
    /\ ustate' = [ustate EXCEPT ![workers[w]] = "finished"]
    /\ workers' = Release(w)
    /\ UNCHANGED <<file_summaries_list, max_workers, dpc, submitted, work_queue, reply,
                   final_data, yield_order, results, done, progress>>
    /\ UNCHANGED <<gvars, pvars, wvars, rvars>>

\* main.py lines 73-85: as_completed yields a future that is done; its outcome
\* is appended, the unit is counted and the progress is reported
Aggregate(i) ==
    /\ dpc = "collect"
    /\ ustate[i] = "finished"
    /\ IF final_data[i].none /\ ~HandlerCatches("TypeError")
       THEN \* the TypeError of line 77 leaves the function
            /\ dpc' = "raised"
            /\ UNCHANGED <<ustate, yield_order, results, done, progress>>
       ELSE /\ ustate' = [ustate EXCEPT ![i] = "yielded"]
            /\ yield_order' = Append(yield_order, i)
            /\ results' = ExtendResults(results,
                                        OutcomeEntries(final_data[i], file_summaries_list[i]))
            /\ done' = NextDone(done)
            /\ progress' = Append(progress, <<NumBatches, NextDone(done)>>)
            /\ UNCHANGED dpc
    /\ UNCHANGED <<file_summaries_list, max_workers, submitted, work_queue,
                   workers, reply, final_data>>
    /\ UNCHANGED <<gvars, pvars, wvars, rvars>>

\* the exit of the `with` block, shutdown(wait=True): the queue is drained and
\* every worker thread has ended
ExecutorJoined == work_queue = <<>> /\ \A w \in 1..Len(workers) : workers[w] = 0

\* main.py lines 73, 69, 87: the loop is over, the executor is shut down, and
\* results is returned
ReturnResults ==
    /\ dpc = "collect"
    /\ CanReturn(yield_order, NumBatches)
    /\ ExecutorJoined
    /\ dpc' = "returned"
    /\ UNCHANGED <<file_summaries_list, max_workers, submitted, work_queue, workers,
                   ustate, reply, final_data, yield_order, results, done, progress>>
    /\ UNCHANGED <<gvars, pvars, wvars, rvars>>

(***************************************************************************)
(* write_analysis_results.                                                 *)
(***************************************************************************)
\* the six keys in the order Python's sorted() gives them
KeyOrder == <<"path", "primary_purpose", "recommendation", "risk score",
              "security_concerns", "trustworthiness">>

\* csv_handler.py line 162: sorted(fieldnames)
SortedKeys(keys) == SelectSeq(KeyOrder, LAMBDA k : k \in keys)

\* csv_handler.py lines 139, 149: `except Exception` around result.keys() and
\* result.items(), which raise AttributeError for a list
WriterCatches(exc) == TRUE

ErrorsAfterPass(errors_, result) == errors_

\* csv_handler.py line 140: file.write(str(result) + "\n"); the text of a list
\* of records spells every record of it
ErrorsAfter(errors_, result) == Append(errors_, result.records)

\* csv_handler.py lines 146-159: what the loop over the keys of one dictionary
\* appends to processed_results. The append of line 157 stands inside the loop
\* over the keys and appends the one object processed_result each time, so
\* the dictionary is appended once per key, each reference showing all keys.
\* The values are strings, as _parse_analysis produces them (line 155).
ProcessedFor(result_fields) ==
    [k \in 1..Cardinality(DOMAIN result_fields) |-> result_fields]

\* csv.DictWriter.writerow, lines 162-164: the values in the order of the
\* header, the empty string for a key the row lacks
WrittenRow(row, header) ==
    [i \in 1..Len(header) |-> IF header[i] \in DOMAIN row THEN row[header[i]] ELSE <<>>]

NoFile == [written |-> FALSE, header |-> <<>>, rows |-> <<>>]

WriteIdle ==
    /\ write_results = <<>>
    /\ wIdx = 0
    /\ wpc = "idle"
    /\ fieldnames = {}
    /\ processed_results = <<>>
    /\ errors = <<>>
    /\ csvfile = NoFile

\* dictionaries as the parser emits them, one that lacks four keys, and the
\* batches a failed unit leaves in the collection
FullAssessment == [f \in Fields |-> <<"ok">>]
OtherAssessment == [BlankParsed EXCEPT !["path"] = <<"x">>]
PartialAssessment == [f \in {"path", "recommendation"} |-> <<"p">>]

ResultEntryInputs ==
    { DictEntry(FullAssessment), DictEntry(OtherAssessment), DictEntry(PartialAssessment),
      ListEntry(BatchXY), ListEntry(BatchZ) }

ResultInputs == UNION {[1..n -> ResultEntryInputs] : n \in 0..MaxResults}

\* lines 132-134: the file "errors" is opened, fieldnames = set()
WriteInit ==
    /\ write_results \in ResultInputs
    /\ wIdx = 0
    /\ wpc = "fieldnames"
    /\ fieldnames = {}
    /\ processed_results = <<>>
    /\ errors = <<>>
    /\ csvfile = NoFile

\* lines 136-138: the keys of a dictionary are added to fieldnames
CollectKeys ==
    /\ wpc = "fieldnames"
    /\ wIdx < Len(write_results)
    /\ write_results[wIdx + 1].type = "dict"
    /\ fieldnames' = fieldnames \cup DOMAIN write_results[wIdx + 1].fields
    /\ wIdx' = wIdx + 1
    /\ UNCHANGED <<write_results, wpc, processed_results, errors, csvfile>>
    /\ UNCHANGED <<gvars, pvars, dvars, rvars>>

\* lines 136-140: a list has no keys(); the handler writes it to "errors"
LogSentinel ==
    /\ wpc = "fieldnames"
    /\ wIdx < Len(write_results)
    /\ write_results[wIdx + 1].type = "list"
    /\ IF WriterCatches("AttributeError")
       THEN /\ errors' = ErrorsAfter(errors, write_results[wIdx + 1])
            /\ wIdx' = wIdx + 1
            /\ UNCHANGED wpc
       ELSE /\ wpc' = "raised"
            /\ UNCHANGED <<errors, wIdx>>
    /\ UNCHANGED <<write_results, fieldnames, processed_results, csvfile>>
    /\ UNCHANGED <<gvars, pvars, dvars, rvars>>

\* lines 143-145: the first loop is over, the second begins
StartRows ==
    /\ wpc = "fieldnames"
    /\ wIdx = Len(write_results)
    /\ wpc' = "rows"
    /\ wIdx' = 0
    /\ UNCHANGED <<write_results, fieldnames, processed_results, errors, csvfile>>
    /\ UNCHANGED <<gvars, pvars, dvars, rvars>>

\* lines 145-159: the rows of one dictionary
ProcessResult ==
    /\ wpc = "rows"
    /\ wIdx < Len(write_results)
    /\ write_results[wIdx + 1].type = "dict"
    /\ processed_results' = processed_results \o ProcessedFor(write_results[wIdx + 1].fields)
    /\ wIdx' = wIdx + 1
    /\ UNCHANGED <<write_results, wpc, fieldnames, errors, csvfile>>
    /\ UNCHANGED <<gvars, pvars, dvars, rvars>>

\* lines 147-150: a list has no items(); `continue`
SkipSentinel ==
    /\ wpc = "rows"
    /\ wIdx < Len(write_results)
    /\ write_results[wIdx + 1].type = "list"
    /\ IF WriterCatches("AttributeError")
       THEN wIdx' = wIdx + 1 /\ UNCHANGED wpc
       ELSE wpc' = "raised" /\ UNCHANGED wIdx
    /\ UNCHANGED <<write_results, fieldnames, processed_results, errors, csvfile>>
    /\ UNCHANGED <<gvars, pvars, dvars, rvars>>

\* lines 161-167: the header and the rows are written and the path returned
WriteCsv ==
    /\ wpc = "rows"
    /\ wIdx = Len(write_results)
    /\ LET header == SortedKeys(fieldnames)
       IN  csvfile' = [written |-> TRUE,
                       header |-> header,
                       rows |-> [k \in 1..Len(processed_results) |->
                                    WrittenRow(processed_results[k], header)]]
    /\ wpc' = "returned"
    /\ UNCHANGED <<write_results, wIdx, fieldnames, processed_results, errors>>
    /\ UNCHANGED <<gvars, pvars, dvars, rvars>>

(***************************************************************************)
(* run_analysis: read, process, write.                                     *)
(***************************************************************************)
\* main.py line 59: the pool size run_analysis leaves at its default
DefaultMaxWorkers == 3

RunIdle == rpc = "idle"

\* the tables of a run: an empty one, one with a blank Path before a single
\* record, and the three records of two directories
RunRowInputs ==
    { <<>>,
      <<[Path |-> <<Space>>, Columns |-> "c"], ScenarioRows[1]>>,
      ScenarioRows }

\* main.py lines 99-101: run_analysis has called read_file_summaries
RunInit ==
    /\ hasPathColumn \in BOOLEAN
    /\ rows \in RunRowInputs
    /\ rowIdx = 0
    /\ file_batch_content = <<>>
    /\ previous_path = <<>>
    /\ summary_list = <<>>
    /\ gpc = "open"
    /\ returned = <<>>
    /\ rpc = "read"

\* main.py lines 101-105: the batches read are handed to
\* process_file_summary_lists
RunProcess ==
    /\ rpc = "read"
    /\ gpc = "returned"
    /\ rpc' = "process"
    /\ file_summaries_list' = returned
    /\ max_workers' = DefaultMaxWorkers
    /\ dpc' = "start"
    /\ ustate' = [i \in 1..Len(returned) |-> "new"]
    /\ reply' = [i \in 1..Len(returned) |-> NoReply]
    /\ final_data' = [i \in 1..Len(returned) |-> None]
    /\ UNCHANGED <<submitted, work_queue, workers, yield_order, results, done, progress>>
    /\ UNCHANGED <<gvars, pvars, wvars>>

\* main.py lines 105-108: the results are handed to write_analysis_results
RunWrite ==
    /\ rpc = "process"
    /\ dpc = "returned"
    /\ rpc' = "write"
    /\ write_results' = results
    /\ wpc' = "fieldnames"
    /\ UNCHANGED <<wIdx, fieldnames, processed_results, errors, csvfile>>
    /\ UNCHANGED <<gvars, pvars, dvars>>

\* main.py lines 108-111: the path of the output file is returned
RunReturn ==
    /\ rpc = "write"
    /\ wpc = "returned"
    /\ rpc' = "returned"
    /\ UNCHANGED <<gvars, pvars, dvars, wvars>>

AfterErrorReturn == "returned"

\* main.py lines 113-115: the error is logged and raised again
AfterError == "raised"

\* an exception leaves the call in progress and reaches the handler of
\* run_analysis
RunRaise ==
    /\ \/ rpc = "read" /\ gpc = "raised"
       \/ rpc = "process" /\ dpc = "raised"
       \/ rpc = "write" /\ wpc = "raised"
    /\ rpc' = AfterError
    /\ UNCHANGED <<gvars, pvars, dvars, wvars>>

(***************************************************************************)
(* Specifications: one per component, the other components at rest.        *)
(***************************************************************************)
GroupNext == OpenReader \/ SkipRow \/ FirstRecord \/ GroupRecord \/ ReturnSummaries

GroupSpecInit == GroupInit /\ ParseIdle /\ DispatchIdle /\ WriteIdle /\ RunIdle

GroupSpec == GroupSpecInit /\ [][GroupNext]_vars

ParseNext == SkipLine \/ FieldLine \/ RecommendationLine \/ ReturnParsed

ParseSpecInit == ParseInit /\ GroupIdle /\ DispatchIdle /\ WriteIdle /\ RunIdle

ParseSpec == ParseSpecInit /\ [][ParseNext]_vars

DispatchNext ==
    \/ ReportStart
    \/ Submit
    \/ \E w \in 1..Len(workers) : TakeWork(w)
    \/ \E w \in 1..Len(workers) : \E text \in ReplyInputs : BackendReply(w, text)
    \/ \E w \in 1..Len(workers) : BackendFail(w)
    \/ \E w \in 1..Len(workers) : WakeUp(w)
    \/ \E i \in Units : Aggregate(i)
    \/ ReturnResults

DispatchSpecInit == DispatchInit /\ GroupIdle /\ ParseIdle /\ WriteIdle /\ RunIdle

DispatchSpec == DispatchSpecInit /\ [][DispatchNext]_vars

\* every backend call resolves, every sleep ends and the threads are scheduled
FairDispatchSpec == DispatchSpec /\ WF_vars(DispatchNext)

WriteNext ==
    CollectKeys \/ LogSentinel \/ StartRows \/ ProcessResult \/ SkipSentinel \/ WriteCsv

WriteSpecInit == WriteInit /\ GroupIdle /\ ParseIdle /\ DispatchIdle /\ RunIdle

WriteSpec == WriteSpecInit /\ [][WriteNext]_vars

RunNext ==
    \/ GroupNext
    \/ RunProcess
    \/ DispatchNext
    \/ RunWrite
    \/ WriteNext
    \/ RunReturn
    \/ RunRaise

RunSpecInit == RunInit /\ ParseIdle /\ DispatchIdle /\ WriteIdle

RunSpec == RunSpecInit /\ [][RunNext]_vars

(***************************************************************************)
(* Properties of the grouping.                                             *)
(***************************************************************************)
Range(s) == {s[i] : i \in 1..Len(s)}

\* the number of occurrences of x in s
Count(s, x) == Cardinality({i \in 1..Len(s) : s[i] = x})

PathOf(row) == Strip(row.Path)

\* C1: when read_file_summaries has returned, every qualifying record of the
\* input is in exactly one returned batch: the returned batches hold each
\* record as often as the qualifying input does, the batch accumulated when
\* the input ended included.
C1_NoRecordLoss ==
    gpc = "returned" =>
        \A r \in Range(SelectQualifying(rows)) \cup Range(Flatten(returned)) :
            Count(Flatten(returned), r) = Count(SelectQualifying(rows), r)

C3_BatchNonEmpty ==
    /\ \A i \in 1..Len(summary_list) : summary_list[i] # <<>>
    /\ \A i \in 1..Len(returned) : returned[i] # <<>>

C3_Witness == gpc = "returned" /\ Len(returned) = 2 /\ rows # ScenarioRows

\* the records of the qualifying rows read so far, in input order
QualifyingSoFar == SelectQualifying(SubSeq(rows, 1, rowIdx))

\* the integer nearest to depth / 2; of two equally near, the even one
NearestToHalf(depth) ==
    CHOOSE k \in 0..depth :
        /\ 2 * k - depth \in {-1, 0, 1}
        /\ (2 * k # depth => k % 2 = 0)

GroupingIndex(depth) == IF depth > 2 THEN NearestToHalf(depth) ELSE 1

\* C14: a qualifying record after the first closes the current batch and
\* starts a new one exactly when the component at the grouping index is not a
\* substring of the path of the qualifying record before it; otherwise it
\* joins the current batch; previous_path becomes its path in both cases.
C14_BoundaryRule ==
    [][ (/\ gpc = "loop"
         /\ rowIdx' = rowIdx + 1
         /\ Qualifies(rows[rowIdx + 1])
         /\ QualifyingSoFar # <<>>)
        => LET record == FileRecord(rows[rowIdx + 1])
               components == Split(record.Path, Sep)
               key == components[GroupingIndex(Len(components)) + 1]
               before == QualifyingSoFar[Len(QualifyingSoFar)].Path
           IN  /\ previous_path = before
               /\ previous_path' = record.Path
               /\ IF IsSubstring(key, before)
                  THEN /\ summary_list' = summary_list
                       /\ file_batch_content' = Append(file_batch_content, record)
                  ELSE /\ summary_list' = Append(summary_list, file_batch_content)
                       /\ file_batch_content' = <<record>> ]_vars

\* the third record, of depth 5, joined the batch the second one had started
C14_Witness ==
    /\ gpc = "loop"
    /\ rowIdx = 3
    /\ Len(summary_list) = 1
    /\ Len(file_batch_content) = 2
    /\ Len(Split(previous_path, Sep)) = 5

\* C15: the emitted batches, concatenated in output order, followed by the
\* batch being accumulated, are the qualifying records read so far in input
\* order.
C15_OrderPreserved ==
    gpc \in {"loop", "returned"} =>
        Flatten(summary_list) \o file_batch_content = QualifyingSoFar

C15_Witness ==
    /\ gpc = "loop"
    /\ Len(summary_list) = 1
    /\ Len(file_batch_content) = 2
    /\ file_batch_content[1] # file_batch_content[2]
    /\ Len(QualifyingSoFar) = 3

\* C20: a qualifying record has at least two components and its grouping
\* index is below that number, so file_tree[index] is in range and the
\* grouping of a table that has a Path column never raises. The row read
\* last is examined in every state of the loop, the index of every depth up
\* to MaxIndexDepth where the loop begins.
C20_IndexInRange ==
    /\ hasPathColumn => gpc # "raised"
    /\ (rowIdx > 0 /\ Qualifies(rows[rowIdx])) =>
           LET depth == Len(Split(Strip(rows[rowIdx].Path), Sep))
           IN  depth >= 2 /\ DirLevelGrouping(depth) \in 0..(depth - 1)
    /\ rowIdx = 0 =>
           \A depth \in 2..MaxIndexDepth : DirLevelGrouping(depth) \in 1..(depth - 1)

\* records of depth 2 and of depth 5 went through the index lookup
C20_Witness ==
    /\ gpc = "returned"
    /\ Len(QualifyingSoFar) = 3
    /\ Len(Split(QualifyingSoFar[2].Path, Sep)) = 2
    /\ Len(Split(QualifyingSoFar[3].Path, Sep)) = 5

(***************************************************************************)
(* Properties of the parser.                                               *)
(***************************************************************************)
\* the occurrences of the Recommendation label, in any case, followed by a colon
RecommendationLabels(text) ==
    Cardinality({i \in 1..(Len(text) - 1) :
                     Lower(text[i]) = "recommendation" /\ text[i + 1] = Colon})

\* C6: a text with exactly k occurrences of the Recommendation label followed
\* by a colon is parsed into exactly k dictionaries, whatever else its lines
\* hold.
C6_TerminatorLaw ==
    ppc = "returned" => Len(parsed_dictionaries) = RecommendationLabels(analysis)

\* the lines on which the parser emits a dictionary
TerminatorLines ==
    {k \in 1..Len(Lines) : MatchedField(Strip(Lines[k])) = "recommendation"}

\* C11: a text none of whose lines triggers the Recommendation terminator is
\* parsed into the empty sequence; a working dictionary that was filled in
\* part is not emitted.
C11_ParserTolerance ==
    (ppc = "returned" /\ TerminatorLines = {}) => parsed_dictionaries = <<>>

C11_Witness ==
    /\ ppc = "returned"
    /\ TerminatorLines = {}
    /\ parsed["path"] # <<>>
    /\ parsed["risk score"] # <<>>

\* the j-th terminator line, and the one before it (0 for the first)
NthTerminator(j) ==
    CHOOSE t \in TerminatorLines : Cardinality({u \in TerminatorLines : u <= t}) = j

PreviousTerminator(j) == IF j = 1 THEN 0 ELSE NthTerminator(j - 1)

\* the words after the first colon of a line, without the white space around
TrimmedAfterFirstColon(line) ==
    LET colons == {i \in 1..Len(line) : line[i] = Colon}
        first == CHOOSE i \in colons : \A j \in colons : i <= j
    IN  Strip(SubSeq(line, first + 1, Len(line)))

\* the label of a field, in lower case
LabelOf(f) ==
    CASE f = "primary_purpose" -> "primary purpose"
      [] f = "security_concerns" -> "security concerns"
      [] OTHER -> f

LabelWords == {LabelOf(f) : f \in Fields}

\* the line holds the label, as a word of its own, followed by a colon (white
\* space may stand between the two)
LabelThenColon(line, label) ==
    \E i \in 1..Len(line) : \E c \in (i + 1)..Len(line) :
        /\ Lower(line[i]) = label
        /\ line[c] = Colon
        /\ \A j \in (i + 1)..(c - 1) : line[j] = Space

HasLabelColon(line) == \E label \in LabelWords : LabelThenColon(line, label)

\* the value field f must have in the j-th dictionary
ExpectedValue(j, f) ==
    LET matching == {k \in (PreviousTerminator(j) + 1)..NthTerminator(j) :
                         LabelThenColon(Strip(Lines[k]), LabelOf(f))}
        last == CHOOSE k \in matching : \A m \in matching : m <= k
    IN  IF matching = {} THEN <<>> ELSE TrimmedAfterFirstColon(Strip(Lines[last]))

\* C16: in the j-th dictionary the parser emits, every field holds the trimmed
\* text after the first colon of the last line, after the previous emission
\* and up to this one, that holds the field's label followed by a colon, and
\* the empty string if there is no such line.
C16_FieldValues ==
    ppc = "returned" =>
        \A j \in 1..Len(parsed_dictionaries) :
            \A f \in Fields : parsed_dictionaries[j][f] = ExpectedValue(j, f)

\* C17: scanning a line that holds no recognized label followed by a colon
\* leaves the working dictionary and the output sequence as they are.
C17_LabelMatching ==
    [][ (lineIdx' = lineIdx + 1 /\ ~HasLabelColon(Strip(Lines[lineIdx + 1])))
            => (parsed' = parsed /\ parsed_dictionaries' = parsed_dictionaries) ]_vars

(***************************************************************************)
(* Properties of the dispatcher.                                           *)
(***************************************************************************)
Running == {i \in Units : ustate[i] \in {"calling", "sleeping"}}

Failed(i) == reply[i].resolved /\ reply[i].failed
Succeeded(i) == reply[i].resolved /\ ~reply[i].failed

\* the one outcome of unit i: the sentinel, or the assessments of its reply
ExpectedOutcome(i) ==
    IF reply[i].failed THEN <<ListEntry(file_summaries_list[i])>>
    ELSE DictEntries(ParseAnalysis(reply[i].text))

\* C4: when the dispatcher returns, every batch has been yielded exactly once
\* and the result collection is the concatenation, in completion order, of
\* one outcome per batch: the assessments parsed from its reply (possibly
\* none) if its call succeeded, the one sentinel if it failed.
C4_DispatcherCompleteness ==
    dpc = "returned" =>
        /\ Len(yield_order) = NumBatches
        /\ \A i \in Units : Count(yield_order, i) = 1 /\ reply[i].resolved
        /\ results = Flatten([k \in 1..Len(yield_order) |->
                                  ExpectedOutcome(yield_order[k])])

C4_Witness ==
    /\ dpc = "returned"
    /\ NumBatches = 3
    /\ Failed(1)
    /\ Succeeded(2) /\ Len(ParseAnalysis(reply[2].text)) = 2
    /\ Succeeded(3) /\ ParseAnalysis(reply[3].text) = <<>>

\* C5: no exception leaves the dispatcher; for every batch value, the result
\* collection holds the batch itself as an entry once per aggregated unit of
\* that batch whose backend call failed (and not otherwise), and at return the
\* assessments of every unit that succeeded are in the collection.
C5_FailureSentinel ==
    /\ dpc # "raised"
    /\ \A b \in BatchInputs :
           Count(results, ListEntry(b)) =
               Cardinality({k \in 1..Len(yield_order) :
                               /\ Failed(yield_order[k])
                               /\ file_summaries_list[yield_order[k]] = b})
    /\ dpc = "returned" =>
           \A i \in Units :
               Succeeded(i) =>
                   \A d \in Range(ParseAnalysis(reply[i].text)) :
                       DictEntry(d) \in Range(results)

\* the batch [z.txt] fails, the batch [x.txt, y.txt] is assessed
C5_Witness ==
    /\ dpc = "returned"
    /\ file_summaries_list = <<BatchXY, BatchZ>>
    /\ Succeeded(1) /\ reply[1].text = WellFormedReply \o WellFormedReply
    /\ Failed(2)
    /\ ListEntry(BatchZ) \in Range(results)
    /\ Len(results) = 3

\* C7: at most max_workers units have started and not finished, and a unit is
\* queued or run in one place only: every unit that is queued, calling or
\* sleeping is once in the queue or with one worker, every other unit nowhere.
C7_BoundedConcurrency ==
    /\ Cardinality(Running) <= max_workers
    /\ \A i \in Units :
           Count(work_queue, i) + Count(workers, i) =
               IF ustate[i] \in {"queued", "calling", "sleeping"} THEN 1 ELSE 0
    /\ \A i \in Running : Count(workers, i) = 1

C7_Witness ==
    /\ NumBatches = 3
    /\ max_workers = 2
    /\ Cardinality(Running) = 2
    /\ Len(work_queue) = 1

\* C8: a unit's future becomes done only by the end of the sleep that follows
\* the resolution of its backend call, whether the call succeeded or failed;
\* while the unit is calling or sleeping it keeps its worker, is not
\* aggregated and is not counted in the progress.
C8_QuarantineOrdering ==
    [][ /\ \A i \in Units :
               (ustate[i] \notin {"finished", "yielded"}
                    /\ ustate'[i] \in {"finished", "yielded"})
                   => (ustate[i] = "sleeping" /\ reply[i].resolved)
        /\ \A i \in Units :
               ustate'[i] \in {"calling", "sleeping"}
                   => /\ Count(workers', i) = 1
                      /\ Count(yield_order', i) = 0
        /\ done' = Len(yield_order') ]_vars

C8_Witness ==
    \E i, j \in Units :
        /\ Failed(i) /\ ustate[i] = "yielded"
        /\ Succeeded(j) /\ ustate[j] = "finished"

\* C9 as stated: the reporter is called N times in all, with the completed
\* counts 1, 2, ..., N.
C9_ProgressAsStated ==
    dpc = "returned" =>
        /\ Len(progress) = NumBatches
        /\ \A k \in 1..Len(progress) : progress[k] = <<NumBatches, k>>

\* C9 amended: the reporter is called once with (N, 0) before any batch is
\* submitted and then once per batch completion, N + 1 calls in all; every
\* call carries (N, c) with c the number of batches completed so far, so the
\* completed counts are 0, 1, ..., N in that order and the last is (N, N).
C9_Progress ==
    /\ dpc = "start" => progress = <<>> /\ submitted = 0
    /\ dpc # "start" => Len(progress) = Len(yield_order) + 1
    /\ \A k \in 1..Len(progress) : progress[k] = <<NumBatches, k - 1>>
    /\ dpc = "returned" =>
           /\ Len(progress) = NumBatches + 1
           /\ progress[Len(progress)] = <<NumBatches, NumBatches>>

C9_Witness == dpc = "returned" /\ NumBatches = 3 /\ Len(progress) = 4

\* C10: the dispatcher has returned only if every unit has finished and been
\* aggregated (none is queued, calling or sleeping), and, the backend calls
\* resolving and the threads being scheduled, it does return.
C10_ReturnsAfterAll ==
    /\ [](dpc = "returned" =>
              \A i \in Units : ustate[i] = "yielded" /\ Count(yield_order, i) = 1)
    /\ <>(dpc = "returned")

C10_Witness ==
    /\ dpc = "returned"
    /\ NumBatches = 3
    /\ max_workers = 1
    /\ \E i \in Units : Failed(i)

\* the number of entries the outcomes of the units 1..n hold together
RECURSIVE OutcomeCount(_)
OutcomeCount(n) == IF n = 0 THEN 0 ELSE OutcomeCount(n - 1) + Len(ExpectedOutcome(n))

\* C18: results and done change only in a step of the main thread, which
\* leaves the pool as it is, appends the whole outcome of one finished unit
\* behind what results already holds and adds one to done, however many
\* units have finished at that moment; so at return results holds every entry
\* of every unit's outcome and done is the number of submitted batches.
C18_NoLostEntries ==
    /\ [][ (results' # results \/ done' # done)
              => /\ dpc = "collect"
                 /\ UNCHANGED <<submitted, work_queue, workers, reply, final_data>>
                 /\ done' = done + 1
                 /\ \E i \in Units :
                        /\ ustate[i] = "finished"
                        /\ ustate' = [ustate EXCEPT ![i] = "yielded"]
                        /\ results' = results \o ExpectedOutcome(i) ]_vars
    /\ [](dpc = "returned" =>
              /\ done = NumBatches
              /\ done = submitted
              /\ Len(results) = OutcomeCount(NumBatches)
              /\ \A i \in Units : \A k \in 1..Len(ExpectedOutcome(i)) :
                     ExpectedOutcome(i)[k] \in Range(results))

\* one unit has been aggregated while two others have both finished and wait
\* for the main thread
C18_Witness ==
    /\ dpc = "collect"
    /\ done = 1
    /\ results # <<>>
    /\ Cardinality({i \in Units : ustate[i] = "finished"}) = 2

(***************************************************************************)
(* Properties of the writer.                                               *)
(***************************************************************************)
\* the sentinels and the dictionaries of the collection, in collection order
Sentinels == SelectSeq(write_results, LAMBDA e : e.type = "list")
Assessments == SelectSeq(write_results, LAMBDA e : e.type = "dict")

\* the row holds the values of the dictionary under the header
RowOf(row, fields) ==
    /\ Len(row) = Len(csvfile.header)
    /\ \A i \in 1..Len(row) :
           row[i] = IF csvfile.header[i] \in DOMAIN fields
                    THEN fields[csvfile.header[i]] ELSE <<>>

\* C13: the writer never raises because of a sentinel; once its first loop is
\* over, the error log holds, per sentinel of the collection and in order,
\* the whole batch (every record of it); and when it returns the table is
\* written, its header has every key of every dictionary and every
\* dictionary of the collection has its row in the table.
C13_FailedBatchesKept ==
    /\ wpc # "raised"
    /\ wpc \in {"rows", "returned"} =>
           /\ Len(errors) = Len(Sentinels)
           /\ \A k \in 1..Len(Sentinels) :
                  /\ errors[k] = Sentinels[k].records
                  /\ \A r \in 1..Len(Sentinels[k].records) :
                         Sentinels[k].records[r] \in Range(errors[k])
    /\ wpc = "returned" =>
           /\ csvfile.written
           /\ \A k \in 1..Len(Assessments) :
                  /\ DOMAIN Assessments[k].fields \subseteq Range(csvfile.header)
                  /\ \E n \in 1..Len(csvfile.rows) :
                         RowOf(csvfile.rows[n], Assessments[k].fields)

\* a collection with a failed batch of two records between two dictionaries
C13_Witness ==
    /\ wpc = "returned"
    /\ Len(write_results) = 3
    /\ write_results[1].type = "dict"
    /\ write_results[2] = ListEntry(BatchXY)
    /\ write_results[3].type = "dict"
    /\ errors = <<BatchXY>>
    /\ csvfile.rows # <<>>

\* C19: the table the writer leaves has the sorted union of the keys as its
\* header and exactly one row per dictionary of the collection, in collection
\* order, blank where the dictionary lacks a key.
C19_RowCount ==
    wpc = "returned" =>
        /\ csvfile.header = SortedKeys(UNION {DOMAIN Assessments[k].fields :
                                                  k \in 1..Len(Assessments)})
        /\ Len(csvfile.rows) = Len(Assessments)
        /\ \A k \in 1..Len(Assessments) :
               k <= Len(csvfile.rows) => RowOf(csvfile.rows[k], Assessments[k].fields)

(***************************************************************************)
(* Properties of the run.                                                  *)
(***************************************************************************)
\* C12: in a run whose table has no Path column, read_file_summaries raises
\* and the run ends raised or is still reading: it never returns, no batch is
\* handed to the dispatcher, no unit is submitted, no backend call resolves
\* and the writer is never entered.
C12_FatalInputError ==
    ~hasPathColumn =>
        /\ rpc \in {"read", "raised"}
        /\ gpc \in {"open", "raised"}
        /\ rpc = "raised" => gpc = "raised"
        /\ dpc = "idle" /\ submitted = 0 /\ ustate = <<>> /\ reply = <<>>
        /\ results = <<>> /\ progress = <<>>
        /\ wpc = "idle" /\ ~csvfile.written /\ errors = <<>>

C12_Witness == ~hasPathColumn /\ rpc = "raised" /\ rows = ScenarioRows

=============================================================================
